---- MODULE Spec2Model ----
(***************************************************************************)
(* Model of the webcam wave detector (vision.ts / vision.js):              *)
(*   GreyscaleImage          - 8-bit image over a Uint8ClampedArray        *)
(*   TransitionCountingImage - per-pixel transition counting state machine *)
(*   the setInterval tick    - the frame pipeline                          *)
(*                                                                         *)
(* Arrays are functions over 0..(length-1), so indices are the source's.   *)
(* A real-valued parameter (contrastFactor, outlierThreshold) is a pair    *)
(* <<num, den>> with den > 0, denoting num/den.                            *)
(***************************************************************************)
EXTENDS Integers, Sequences, FiniteSets, TLC

VARIABLES
    img,                    \* GreyscaleImage under a single operation
    arg,                    \* the operand of that operation
    hist,                   \* the images before each application
    stateImage,             \* TransitionCountingImage
    lastCall,               \* arguments of the last update() call
    altLen,                 \* history: length of the current 0/255 alternation of pixel 0
    gap,                    \* history: updates without transition since activation on 0
    prevGap,                \* history: gap before the last update
    prior,                  \* history: pixel 0 as the last update found it
    elapsed,                \* history: updates since pixel 0's last accepted transition
    twin,                   \* a second TransitionCountingImage, updated alongside
    canvas,                 \* content of the CameraInput canvas (<<>> before the first draw)
    cameraImage,            \* tick closure: cameraImage (<<>> is undefined)
    prevCameraImage,        \* tick closure: prevCameraImage (<<>> is undefined)
    diffImage,
    highContrastDiffImage,
    waveMap,
    filteredWaveMap,
    isWaving,               \* text of #is-waving
    cameraInput,            \* width and height of the CameraInput canvas
    inputs,                 \* values of the page's four number inputs
    still,                  \* history: every pipeline run so far saw identical frames
    ticks                   \* number of ticks taken

vars == <<img, arg, hist, stateImage, lastCall, altLen, gap, prevGap,
          prior, elapsed, twin, canvas,
          cameraImage, prevCameraImage, diffImage, highContrastDiffImage,
          waveMap, filteredWaveMap, isWaving, cameraInput, inputs, still,
          ticks>>

imageVars == <<img, arg, hist>>
counterVars == <<lastCall, altLen, gap, prevGap, prior, elapsed, twin>>
tickVars == <<cameraImage, prevCameraImage, diffImage, highContrastDiffImage,
              waveMap, filteredWaveMap, isWaving, cameraInput, inputs, still,
              ticks,
              canvas>>

----------------------------------------------------------------------------
(* Uint8ClampedArray element semantics *)

\* Bounds of a Uint8ClampedArray element.
ByteMax == 255

Byte == 0..ByteMax

\* Store of an integer into a Uint8ClampedArray element.
Clamp8(x) == IF x < 0 THEN 0 ELSE IF x > ByteMax THEN ByteMax ELSE x

\* Store of the rational num/den (den > 0) into a Uint8ClampedArray element:
\* ToUint8Clamp clamps and rounds to nearest, ties to even.
ToUint8Clamp(num, den) ==
    LET f == num \div den
        r == num % den
        n == IF 2 * r < den THEN f
             ELSE IF 2 * r > den THEN f + 1
             ELSE IF f % 2 = 0 THEN f ELSE f + 1
    IN  Clamp8(n)

ZeroData(n) == [i \in 0..(n - 1) |-> 0]

----------------------------------------------------------------------------
(* JavaScript numbers

   The arithmetic of the images is done in doubles. A magnitude is held as its
   bits, least significant first, a fixed number of them below the unit.
   Sums and products of integers and of binary fractions of the sizes met
   here are doubles exactly, and are computed on integers; the operators
   below serve for factors that are not binary fractions. *)

\* n is a power of two, so that num / n is a binary fraction.
IsPowerOfTwo(n) == \E k \in 0..30 : n = 2^k

\* Number of significant bits of a JavaScript number (IEEE 754 double).
Significand == 53

RECURSIVE NatBits(_)
\* The bits of a natural number, least significant first.
NatBits(n) == IF n = 0 THEN <<>> ELSE <<n % 2>> \o NatBits(n \div 2)

RECURSIVE BitsNat(_)
\* The natural number of a short sequence of bits.
BitsNat(b) == IF b = <<>> THEN 0 ELSE b[1] + 2 * BitsNat(Tail(b))

RECURSIVE Trim(_)
\* b without its leading (most significant) zeros.
Trim(b) ==
    IF b = <<>> \/ b[Len(b)] = 1 THEN b ELSE Trim(SubSeq(b, 1, Len(b) - 1))

RECURSIVE AddBits(_, _, _)
\* a + b + carry
AddBits(a, b, carry) ==
    IF a = <<>> /\ b = <<>> THEN (IF carry = 0 THEN <<>> ELSE <<1>>)
    ELSE LET x == (IF a = <<>> THEN 0 ELSE a[1])
                  + (IF b = <<>> THEN 0 ELSE b[1]) + carry
         IN  <<x % 2>> \o AddBits(IF a = <<>> THEN a ELSE Tail(a),
                                  IF b = <<>> THEN b ELSE Tail(b),
                                  x \div 2)

RECURSIVE SubBits(_, _, _)
\* a - b - borrow, for a >= b + borrow
SubBits(a, b, borrow) ==
    IF a = <<>> THEN <<>>
    ELSE LET x == a[1] - (IF b = <<>> THEN 0 ELSE b[1]) - borrow
         IN  <<x % 2>> \o SubBits(Tail(a),
                                  IF b = <<>> THEN b ELSE Tail(b),
                                  IF x < 0 THEN 1 ELSE 0)

\* a < b
LessBits(a, b) ==
    LET ta == Trim(a)
        tb == Trim(b)
    IN  IF Len(ta) # Len(tb) THEN Len(ta) < Len(tb)
        ELSE \E i \in 1..Len(ta) :
                /\ ta[i] < tb[i]
                /\ \A j \in (i + 1)..Len(ta) : ta[j] = tb[j]

RECURSIVE MulBits(_, _, _)
\* a * m + carry for a small natural m
MulBits(a, m, carry) ==
    IF a = <<>> THEN NatBits(carry)
    ELSE LET x == a[1] * m + carry
         IN  <<x % 2>> \o MulBits(Tail(a), m, x \div 2)

\* The double nearest to b (plus a non-zero part below its last bit when
\* sticky), ties to the even significand: the result keeps the position of
\* its bits, so the bits dropped are zeros.
RoundBits(b, sticky) ==
    LET t == Trim(b)
        drop == Len(t) - Significand
    IN  IF drop <= 0 THEN t
        ELSE LET kept == SubSeq(t, drop + 1, Len(t))
                 low == sticky \/ \E i \in 1..(drop - 1) : t[i] = 1
                 up == t[drop] = 1 /\ (low \/ kept[1] = 1)
             IN  [i \in 1..drop |-> 0]
                 \o (IF up THEN AddBits(kept, <<1>>, 0) ELSE kept)

RECURSIVE DivBits(_, _, _, _)
\* The quotient acc followed by k more binary places of r / den, with what
\* remains.
DivBits(r, den, k, acc) ==
    IF k = 0 THEN [bits |-> acc, rem |-> r]
    ELSE DivBits((2 * r) % den, den, k - 1, <<(2 * r) \div den>> \o acc)

\* Binary places kept below the unit: enough for the quotient of a division
\* by den to have more than Significand bits.
Places(den) == Significand + 1 + Len(NatBits(den))

\* The double num / den for naturals num and den > 0, as its bits with
\* Places(den) of them below the unit.
Quotient(num, den) ==
    LET q == DivBits(num % den, den, Places(den), NatBits(num \div den))
    IN  RoundBits(q.bits, q.rem # 0)

\* Uint8ClampedArray's conversion of the double with magnitude bits b, places
\* of them below the unit: clamped to 0..255, rounded to the nearest integer,
\* ties to even.
BitsToUint8Clamp(negative, b, places) ==
    LET t == Trim(b)
    IN  IF negative \/ t = <<>> THEN 0
        ELSE IF Len(t) > places + 8 THEN ByteMax
        ELSE LET n == BitsNat(SubSeq(t, places + 1, Len(t)))
                 half == Len(t) >= places /\ t[places] = 1
                 low == \E i \in 1..(places - 1) : i <= Len(t) /\ t[i] = 1
                 up == half /\ (low \/ n % 2 = 1)
             IN  IF n = ByteMax THEN ByteMax
                 ELSE IF up THEN n + 1 ELSE n

\* v + (v - 128) * f in doubles, stored into a Uint8ClampedArray, for the
\* double f of magnitude bits factorBits.
ContrastSample(v, negativeFactor, factorBits, places) ==
    LET distance == IF v < 128 THEN 128 - v ELSE v - 128
        product == RoundBits(MulBits(factorBits, distance, 0), FALSE)
        sample == [i \in 1..places |-> 0] \o NatBits(v)
        subtracted == (v < 128) # negativeFactor
    IN  IF ~subtracted
        THEN BitsToUint8Clamp(FALSE,
                 RoundBits(AddBits(sample, product, 0), FALSE), places)
        ELSE IF LessBits(sample, product)
        THEN BitsToUint8Clamp(TRUE,
                 RoundBits(SubBits(product, sample, 0), FALSE), places)
        ELSE BitsToUint8Clamp(FALSE,
                 RoundBits(SubBits(sample, product, 0), FALSE), places)

----------------------------------------------------------------------------
(* GreyscaleImage *)

\* new GreyscaleImage()
NewImage == [width |-> 0, height |-> 0, data |-> ZeroData(0)]

\* GreyscaleImage._setSize
setSize(image, width, height) ==
    IF width # image.width \/ height # image.height
    THEN [image EXCEPT !.width = width, !.height = height,
                       !.data = ZeroData(width * height)]
    ELSE image

\* read with the average cut to the integer below it.
readFloor(image, context) ==
    LET s == setSize(image, context.width, context.height)
    IN  [s EXCEPT !.data = [i \in DOMAIN s.data |->
            Clamp8((context.pixels[i][1] + context.pixels[i][2]
                    + context.pixels[i][3]) \div 3)]]

\* GreyscaleImage.read: context is [width, height, pixels], pixels[i] = <<R,G,B,A>>
read(image, context) ==
    LET s == setSize(image, context.width, context.height)
    IN  [s EXCEPT !.data = [i \in DOMAIN s.data |->
            ToUint8Clamp(context.pixels[i][1] + context.pixels[i][2]
                         + context.pixels[i][3], 3)]]

\* GreyscaleImage.updateFrom
updateFrom(image, source) ==
    LET s == setSize(image, source.width, source.height)
    IN  [s EXCEPT !.data = [i \in DOMAIN s.data |-> source.data[i]]]

\* subtract without the +128 that re-centres the difference.
subtractNoCentre(image, other) ==
    [image EXCEPT !.data = [i \in DOMAIN image.data |->
        IF i \in DOMAIN other.data
        THEN Clamp8(image.data[i] - other.data[i])
        ELSE 0]]

\* GreyscaleImage.subtract (a sample missing from other is undefined: NaN stores 0)
subtract(image, other) ==
    [image EXCEPT !.data = [i \in DOMAIN image.data |->
        IF i \in DOMAIN other.data
        THEN Clamp8((image.data[i] - other.data[i]) + 128)
        ELSE 0]]

\* increaseContrast scaling the sample itself instead of its distance from 128.
increaseContrastNoCentre(image, factor) ==
    [image EXCEPT !.data = [i \in DOMAIN image.data |->
        ToUint8Clamp(image.data[i] * factor[2] + image.data[i] * factor[1],
                     factor[2])]]

\* GreyscaleImage.increaseContrast, factor = the double num / den of
\* <<num, den>>: data[i] += (data[i] - 128) * factor. For a binary fraction
\* the product and the sum are exact; otherwise each is rounded to a double
\* before the store rounds the sum to an integer.
increaseContrast(image, factor) ==
    IF IsPowerOfTwo(factor[2])
    THEN [image EXCEPT !.data = [i \in DOMAIN image.data |->
            ToUint8Clamp(image.data[i] * factor[2]
                         + (image.data[i] - 128) * factor[1], factor[2])]]
    ELSE [image EXCEPT !.data = [i \in DOMAIN image.data |->
            ContrastSample(image.data[i], factor[1] < 0,
                           Quotient(IF factor[1] < 0 THEN -factor[1]
                                    ELSE factor[1], factor[2]),
                           Places(factor[2]))]]

\* GreyscaleImage.toBinary
toBinary(image, whiteThreshold) ==
    [image EXCEPT !.data = [i \in DOMAIN image.data |->
        Clamp8(image.data[i] + (image.data[i] - whiteThreshold + 1) * 255)]]

RECURSIVE SumRange(_, _, _)
\* data[i] + ... + data[j - 1], the left half and then the right half.
SumRange(data, i, j) ==
    IF j <= i THEN 0
    ELSE IF j = i + 1 THEN data[i]
    ELSE SumRange(data, i, (i + j) \div 2) + SumRange(data, (i + j) \div 2, j)

\* GreyscaleImage.pixelSum
pixelSum(image) == SumRange(image.data, 0, Cardinality(DOMAIN image.data))

\* The nine indices read by discardOutliers for pixel i, in source order.
NeighbourIndices(i, w) ==
    << i - w - 1, i - w, i - w + 1,
       i - 1,     i,     i + 1,
       i + w - 1, i + w, i + w + 1 >>

\* neighbourSum taking every read outside the array for 0.
NeighbourSumPadded(data, i, w) ==
    LET idx == NeighbourIndices(i, w)
        at(k) == IF idx[k] \in DOMAIN data THEN data[idx[k]] ELSE 0
    IN  [defined |-> TRUE,
         sum |-> at(1) + at(2) + at(3) + at(4) + at(5) + at(6)
                 + at(7) + at(8) + at(9)]

\* neighbourSum of discardOutliers; a read outside the array is undefined and
\* makes the sum NaN, reported here as defined = FALSE. The nine indices lie
\* from i - w - 1 to i + w + 1, so all are inside when these two are.
NeighbourSum(data, i, w) ==
    IF (i - w - 1) \in DOMAIN data /\ (i + w + 1) \in DOMAIN data
    THEN [defined |-> TRUE,
          sum |-> data[i - w - 1] + data[i - w] + data[i - w + 1]
                  + data[i - 1] + data[i] + data[i + 1]
                  + data[i + w - 1] + data[i + w] + data[i + w + 1]]
    ELSE [defined |-> FALSE, sum |-> 0]

\* neighbourSum >= outlierThreshold * 255, for the double num / den of
\* outlierThreshold = <<num, den>>; the product is rounded to a double when
\* the threshold is not a binary fraction.
ThresholdReached(sum, outlierThreshold) ==
    IF IsPowerOfTwo(outlierThreshold[2])
    THEN sum * outlierThreshold[2] >= outlierThreshold[1] * 255
    ELSE \/ outlierThreshold[1] < 0
         \/ ~LessBits([i \in 1..Places(outlierThreshold[2]) |-> 0] \o NatBits(sum),
                      RoundBits(MulBits(Quotient(outlierThreshold[1],
                                                 outlierThreshold[2]),
                                        255, 0), FALSE))

\* One iteration of the loop of discardOutliers: neighbourSum >= outlierThreshold * 255
\* is false when neighbourSum is NaN.
OutlierPixel(data, i, w, outlierThreshold) ==
    LET ns == NeighbourSum(data, i, w)
    IN  IF ns.defined /\ ThresholdReached(ns.sum, outlierThreshold)
        THEN 255 ELSE 0

RECURSIVE DiscardRange(_, _, _, _, _)
\* The iterations i .. j - 1 of the loop of discardOutliers, the left half
\* and then the right half: pixels are overwritten in index order, in place.
DiscardRange(data, i, j, w, outlierThreshold) ==
    IF j <= i \/ i \notin DOMAIN data THEN data
    ELSE IF j = i + 1
    THEN [data EXCEPT ![i] = OutlierPixel(data, i, w, outlierThreshold)]
    ELSE DiscardRange(DiscardRange(data, i, (i + j) \div 2, w, outlierThreshold),
                      (i + j) \div 2, j, w, outlierThreshold)

\* GreyscaleImage.discardOutliers, outlierThreshold = <<num, den>>
discardOutliers(image, outlierThreshold) ==
    [image EXCEPT !.data = DiscardRange(image.data, 0, Cardinality(DOMAIN image.data),
                                        image.width, outlierThreshold)]

----------------------------------------------------------------------------
(* TransitionCountingImage *)

\* new TransitionCountingImage()
NewTransitionCountingImage ==
    [width |-> 0, height |-> 0, data |-> ZeroData(0),
     nextExpected |-> ZeroData(0), txTimer |-> ZeroData(0)]

\* UpdatePixel timing out with >= in place of >.
UpdatePixelEarly(count, nextExpected, txTimer, srcPixel, maxInterval) ==
    IF count = 0
    THEN IF srcPixel = 0
         THEN [count |-> 1, nextExpected |-> 255, txTimer |-> 0]
         ELSE IF srcPixel = 255
         THEN [count |-> 1, nextExpected |-> 0, txTimer |-> 0]
         ELSE [count |-> count, nextExpected |-> nextExpected, txTimer |-> txTimer]
    ELSE LET t == Clamp8(txTimer + 1)
         IN  IF t >= maxInterval
             THEN [count |-> 0, nextExpected |-> nextExpected, txTimer |-> t]
             ELSE IF srcPixel = nextExpected
             THEN [count |-> Clamp8(count + 1),
                   nextExpected |-> Clamp8(255 - nextExpected), txTimer |-> 0]
             ELSE [count |-> count, nextExpected |-> nextExpected, txTimer |-> t]

\* UpdatePixel timing out one call late.
UpdatePixelLate(count, nextExpected, txTimer, srcPixel, maxInterval) ==
    IF count = 0
    THEN IF srcPixel = 0
         THEN [count |-> 1, nextExpected |-> 255, txTimer |-> 0]
         ELSE IF srcPixel = 255
         THEN [count |-> 1, nextExpected |-> 0, txTimer |-> 0]
         ELSE [count |-> count, nextExpected |-> nextExpected, txTimer |-> txTimer]
    ELSE LET t == Clamp8(txTimer + 1)
         IN  IF t > maxInterval + 1
             THEN [count |-> 0, nextExpected |-> nextExpected, txTimer |-> t]
             ELSE IF srcPixel = nextExpected
             THEN [count |-> Clamp8(count + 1),
                   nextExpected |-> Clamp8(255 - nextExpected), txTimer |-> 0]
             ELSE [count |-> count, nextExpected |-> nextExpected, txTimer |-> t]

\* UpdatePixel flipping nextExpected around 256 instead of 255.
UpdatePixelBadFlip(count, nextExpected, txTimer, srcPixel, maxInterval) ==
    IF count = 0
    THEN IF srcPixel = 0
         THEN [count |-> 1, nextExpected |-> 255, txTimer |-> 0]
         ELSE IF srcPixel = 255
         THEN [count |-> 1, nextExpected |-> 0, txTimer |-> 0]
         ELSE [count |-> count, nextExpected |-> nextExpected, txTimer |-> txTimer]
    ELSE LET t == Clamp8(txTimer + 1)
         IN  IF t > maxInterval
             THEN [count |-> 0, nextExpected |-> nextExpected, txTimer |-> t]
             ELSE IF srcPixel = nextExpected
             THEN [count |-> Clamp8(count + 1),
                   nextExpected |-> Clamp8(256 - nextExpected), txTimer |-> 0]
             ELSE [count |-> count, nextExpected |-> nextExpected, txTimer |-> t]

\* UpdatePixel testing the match before the timeout.
UpdatePixelMatchFirst(count, nextExpected, txTimer, srcPixel, maxInterval) ==
    IF count = 0
    THEN IF srcPixel = 0
         THEN [count |-> 1, nextExpected |-> 255, txTimer |-> 0]
         ELSE IF srcPixel = 255
         THEN [count |-> 1, nextExpected |-> 0, txTimer |-> 0]
         ELSE [count |-> count, nextExpected |-> nextExpected, txTimer |-> txTimer]
    ELSE LET t == Clamp8(txTimer + 1)
         IN  IF srcPixel = nextExpected
             THEN [count |-> Clamp8(count + 1),
                   nextExpected |-> Clamp8(255 - nextExpected), txTimer |-> 0]
             ELSE IF t > maxInterval
             THEN [count |-> 0, nextExpected |-> nextExpected, txTimer |-> t]
             ELSE [count |-> count, nextExpected |-> nextExpected, txTimer |-> t]

\* UpdatePixel with a count that wraps around at 256.
UpdatePixelWrap(count, nextExpected, txTimer, srcPixel, maxInterval) ==
    IF count = 0
    THEN IF srcPixel = 0
         THEN [count |-> 1, nextExpected |-> 255, txTimer |-> 0]
         ELSE IF srcPixel = 255
         THEN [count |-> 1, nextExpected |-> 0, txTimer |-> 0]
         ELSE [count |-> count, nextExpected |-> nextExpected, txTimer |-> txTimer]
    ELSE LET t == Clamp8(txTimer + 1)
         IN  IF t > maxInterval
             THEN [count |-> 0, nextExpected |-> nextExpected, txTimer |-> t]
             ELSE IF srcPixel = nextExpected
             THEN [count |-> (count + 1) % 256,
                   nextExpected |-> Clamp8(255 - nextExpected), txTimer |-> 0]
             ELSE [count |-> count, nextExpected |-> nextExpected, txTimer |-> t]

\* UpdatePixel taking every source value from 128 up for white, the others for
\* black.
UpdatePixelThreshold(count, nextExpected, txTimer, srcPixel, maxInterval) ==
    LET level == IF srcPixel >= 128 THEN 255 ELSE 0
    IN  IF count = 0
        THEN [count |-> 1, nextExpected |-> 255 - level, txTimer |-> 0]
        ELSE LET t == Clamp8(txTimer + 1)
             IN  IF t > maxInterval
                 THEN [count |-> 0, nextExpected |-> nextExpected, txTimer |-> t]
                 ELSE IF level = nextExpected
                 THEN [count |-> Clamp8(count + 1),
                       nextExpected |-> Clamp8(255 - nextExpected), txTimer |-> 0]
                 ELSE [count |-> count, nextExpected |-> nextExpected,
                       txTimer |-> t]

\* UpdatePixel testing txTimer against the default interval, whatever
\* maxInterval was passed.
UpdatePixelFixedInterval(count, nextExpected, txTimer, srcPixel, maxInterval) ==
    IF count = 0
    THEN IF srcPixel = 0
         THEN [count |-> 1, nextExpected |-> 255, txTimer |-> 0]
         ELSE IF srcPixel = 255
         THEN [count |-> 1, nextExpected |-> 0, txTimer |-> 0]
         ELSE [count |-> count, nextExpected |-> nextExpected, txTimer |-> txTimer]
    ELSE LET t == Clamp8(txTimer + 1)
         IN  IF t > 10
             THEN [count |-> 0, nextExpected |-> nextExpected, txTimer |-> t]
             ELSE IF srcPixel = nextExpected
             THEN [count |-> Clamp8(count + 1),
                   nextExpected |-> Clamp8(255 - nextExpected), txTimer |-> 0]
             ELSE [count |-> count, nextExpected |-> nextExpected, txTimer |-> t]

\* Body of the loop of TransitionCountingImage.update for one pixel: the new
\* data[i], nextExpected[i] and txTimer[i]. Every store is into a
\* Uint8ClampedArray.
UpdatePixel(count, nextExpected, txTimer, srcPixel, maxInterval) ==
    IF count = 0
    THEN IF srcPixel = 0
         THEN [count |-> 1, nextExpected |-> 255, txTimer |-> 0]
         ELSE IF srcPixel = 255
         THEN [count |-> 1, nextExpected |-> 0, txTimer |-> 0]
         ELSE [count |-> count, nextExpected |-> nextExpected, txTimer |-> txTimer]
    ELSE LET t == Clamp8(txTimer + 1)
         IN  IF t > maxInterval
             THEN [count |-> 0, nextExpected |-> nextExpected, txTimer |-> t]
             ELSE IF srcPixel = nextExpected
             THEN [count |-> Clamp8(count + 1),
                   nextExpected |-> Clamp8(255 - nextExpected), txTimer |-> 0]
             ELSE [count |-> count, nextExpected |-> nextExpected, txTimer |-> t]

\* The resize at the head of TransitionCountingImage.update
Resized(tc, source) ==
    IF source.width # tc.width \/ source.height # tc.height
    THEN [width |-> source.width, height |-> source.height,
          data |-> ZeroData(source.width * source.height),
          nextExpected |-> ZeroData(source.width * source.height),
          txTimer |-> ZeroData(source.width * source.height)]
    ELSE tc

\* update reading, for pixel i, the source value of the pixel after it.
updateShifted(tc, source, maxInterval) ==
    LET r == Resized(tc, source)
        n == source.width * source.height
        px(i) == UpdatePixel(r.data[i], r.nextExpected[i], r.txTimer[i],
                             source.data[(i + 1) % n], maxInterval)
    IN  [r EXCEPT !.data = [i \in DOMAIN r.data |-> px(i).count],
                  !.nextExpected = [i \in DOMAIN r.data |-> px(i).nextExpected],
                  !.txTimer = [i \in DOMAIN r.data |-> px(i).txTimer]]

\* The loop body of update for a pixel i that nextExpected and txTimer do not
\* hold (their length is below data's): reading them gives undefined, so no
\* comparison with them is true, and the stores to them are dropped.
UpdatePixelUnbacked(count, srcPixel) ==
    IF count = 0 /\ srcPixel \in {0, 255} THEN 1 ELSE count

\* TransitionCountingImage.update
update(tc, source, maxInterval) ==
    LET r == Resized(tc, source)
        backed(i) == i \in DOMAIN r.nextExpected /\ i \in DOMAIN r.txTimer
        px(i) == UpdatePixel(r.data[i], r.nextExpected[i], r.txTimer[i],
                             source.data[i], maxInterval)
    IN  [r EXCEPT
            !.data = [i \in DOMAIN r.data |->
                        IF backed(i) THEN px(i).count
                        ELSE UpdatePixelUnbacked(r.data[i], source.data[i])],
            !.nextExpected = [i \in DOMAIN r.nextExpected |->
                        IF i \in DOMAIN r.data THEN px(i).nextExpected
                        ELSE r.nextExpected[i]],
            !.txTimer = [i \in DOMAIN r.txTimer |->
                        IF i \in DOMAIN r.data THEN px(i).txTimer
                        ELSE r.txTimer[i]]]

----------------------------------------------------------------------------
(* Bounds and input sets *)

\* How often one operation is applied to the same image.
MaxApply == 2

\* All images of the given size with samples from values.
Images(width, height, values) ==
    { [width |-> width, height |-> height, data |-> d] :
        d \in [0..(width * height - 1) -> values] }

ZeroFrame(width, height) ==
    [width |-> width, height |-> height, data |-> ZeroData(width * height)]

\* Samples around the default threshold and at the extremes.
EdgeSamples == {0, 127, 128, 255}

\* One pixel with every sample value, two pixels with the edge samples.
SampleImages == Images(1, 1, Byte) \cup Images(2, 1, EdgeSamples)

\* Frames for the neighbourhood filter: 3x3, 4x3 and 3x4 (the smallest with a
\* first-column pixel whose nine reads are all inside the array), and the
\* frames of one and two rows 3x1, 3x2 and 2x2, black or white pixels.
FilterImages ==
    Images(3, 3, {0, 255}) \cup Images(4, 3, {0, 255})
    \cup Images(3, 4, {0, 255})
    \cup Images(3, 1, {0, 255}) \cup Images(3, 2, {0, 255})
    \cup Images(2, 2, {0, 255})

\* outlierThreshold values 0, 0.5, 1 and 1.5
OutlierThresholds == {<<0, 1>>, <<1, 2>>, <<1, 1>>, <<3, 2>>}

\* Values of the variables a specification does not use.
ImageIdle == img = NewImage /\ arg = 0 /\ hist = <<>>
CounterIdle ==
    /\ stateImage = NewTransitionCountingImage
    /\ lastCall = <<>>
    /\ altLen = 0
    /\ gap = -1
    /\ prevGap = -1
    /\ prior = [count |-> 0, nextExpected |-> 0, txTimer |-> 0]
    /\ elapsed = 0
    /\ twin = NewTransitionCountingImage
TickIdle ==
    /\ cameraImage = <<>>
    /\ prevCameraImage = <<>>
    /\ diffImage = NewImage
    /\ highContrastDiffImage = NewImage
    /\ waveMap = NewImage
    /\ filteredWaveMap = NewImage
    /\ isWaving = ""
    /\ cameraInput = [width |-> 0, height |-> 0]
    /\ inputs = <<>>
    /\ still = TRUE
    /\ ticks = 0
    /\ canvas = <<>>

\* The image before the last application.
Pre == hist[Len(hist)]

----------------------------------------------------------------------------
(* toBinary applied to an image, with a threshold fixed at the start *)

InitToBinary ==
    /\ img \in SampleImages
    /\ arg \in Byte
    /\ hist = <<>>
    /\ CounterIdle /\ TickIdle

ToBinaryStep ==
    /\ Len(hist) < MaxApply
    /\ img' = toBinary(img, arg)
    /\ hist' = Append(hist, img)
    /\ UNCHANGED <<arg, stateImage, counterVars, tickVars>>

NextToBinary == ToBinaryStep

SpecToBinary == InitToBinary /\ [][NextToBinary]_vars

----------------------------------------------------------------------------
(* read applied to a new image, with the canvas fixed at the start *)

\* Colours whose R + G + B takes every value from 0 to 765, opaque or not.
ReadColours == (0..255) \X {0, 255} \X {0, 255} \X {0, 255}

\* A 1x1 canvas of every colour, and 2x1 canvases of colours whose sums
\* differ in their remainder by 3.
ReadCanvases ==
    { [width |-> 1, height |-> 1, pixels |-> [i \in 0..0 |-> c]] :
        c \in ReadColours }
    \cup
    { [width |-> 2, height |-> 1, pixels |-> px] :
        px \in [0..1 -> {<<0, 0, 1, 255>>, <<2, 0, 0, 0>>, <<255, 255, 254, 255>>}] }

InitRead ==
    /\ img = NewImage
    /\ arg \in ReadCanvases
    /\ hist = <<>>
    /\ CounterIdle /\ TickIdle

ReadStep ==
    /\ Len(hist) < MaxApply
    /\ img' = read(img, arg)
    /\ hist' = Append(hist, img)
    /\ UNCHANGED <<arg, stateImage, counterVars, tickVars>>

NextRead == ReadStep

SpecRead == InitRead /\ [][NextRead]_vars

----------------------------------------------------------------------------
(* subtract applied to an image A with an operand B, then with a zero frame *)

InitSubtract ==
    /\ img \in SampleImages
    /\ arg \in Images(img.width, img.height,
                      IF img.width = 1 THEN Byte ELSE EdgeSamples)
    /\ hist = <<>>
    /\ CounterIdle /\ TickIdle

SubtractStep ==
    /\ Len(hist) = 0
    /\ img' = subtract(img, arg)
    /\ hist' = Append(hist, img)
    /\ UNCHANGED <<arg, stateImage, counterVars, tickVars>>

SubtractZeroStep ==
    /\ Len(hist) >= 1
    /\ Len(hist) < MaxApply
    /\ img' = subtract(img, ZeroFrame(img.width, img.height))
    /\ hist' = Append(hist, img)
    /\ UNCHANGED <<arg, stateImage, counterVars, tickVars>>

NextSubtract == SubtractStep \/ SubtractZeroStep

SpecSubtract == InitSubtract /\ [][NextSubtract]_vars

----------------------------------------------------------------------------
(* discardOutliers applied to a frame, with a threshold fixed at the start *)

InitOutliers ==
    /\ img \in FilterImages
    /\ arg \in OutlierThresholds
    /\ hist = <<>>
    /\ CounterIdle /\ TickIdle

DiscardOutliersStep ==
    /\ Len(hist) < MaxApply
    /\ img' = discardOutliers(img, arg)
    /\ hist' = Append(hist, img)
    /\ UNCHANGED <<arg, stateImage, counterVars, tickVars>>

NextOutliers == DiscardOutliersStep

SpecOutliers == InitOutliers /\ [][NextOutliers]_vars

----------------------------------------------------------------------------
(* TransitionCountingImage.update called directly *)

\* Default of update's maxInterval parameter.
DefaultMaxInterval == 10

\* Length up to which an alternation of pixel 0 is followed.
MaxAlternation == 256

\* Largest count a pixel has when update is still called, where sizes vary.
MaxCount == 3

\* Number of calls up to which a pixel without transition is followed.
MaxElapsed == 257

\* Source value of pixel 0 in the last update() call.
LastSrc == lastCall[1].source.data[0]

\* One call stateImage.update(source, maxInterval), source with at least one
\* pixel. The history variables follow pixel 0:
\*   altLen  the number of consecutive calls, each with maxInterval >= 1, the
\*           first finding the pixel Idle, whose source values alternate
\*           between 0 and 255;
\*   gap     the number of consecutive calls with maxInterval = 10 and a source
\*           value other than 255 since a call with maxInterval = 10 found the
\*           pixel Idle and had source value 0 (-1: no such run);
\*   prior   the pixel as the loop of this call found it, after the resize;
\*   elapsed the number of calls that found the pixel Active since the call
\*           that last accepted a transition of it (activated it, or
\*           flipped its nextExpected), followed up to MaxElapsed.
UpdateCall(source, maxInterval) ==
    \E resized \in {Resized(stateImage, source)},
       post \in {update(stateImage, source, maxInterval)} :
    LET sameSize == source.width = stateImage.width
                    /\ source.height = stateImage.height
        pre == resized.data[0]
        src == source.data[0]
        accepted == \/ pre = 0 /\ post.data[0] > 0
                    \/ /\ pre > 0 /\ post.data[0] > 0
                       /\ post.nextExpected[0] # resized.nextExpected[0]
    IN  /\ stateImage' = post
        /\ prior' = [count |-> pre, nextExpected |-> resized.nextExpected[0],
                     txTimer |-> resized.txTimer[0]]
        /\ elapsed' = IF accepted \/ pre = 0 THEN 0
                      ELSE IF elapsed < MaxElapsed THEN elapsed + 1 ELSE elapsed
        /\ twin' = twin
        /\ lastCall' = <<[source |-> source, maxInterval |-> maxInterval]>>
        /\ altLen' =
              IF /\ maxInterval >= 1 /\ altLen >= 1 /\ sameSize
                 /\ src \in {0, 255} /\ src = 255 - LastSrc
              THEN (IF altLen < MaxAlternation THEN altLen + 1 ELSE altLen)
              ELSE IF maxInterval >= 1 /\ pre = 0 /\ src \in {0, 255}
              THEN 1 ELSE 0
        /\ gap' =
              IF /\ gap \in 0..DefaultMaxInterval /\ sameSize
                 /\ maxInterval = DefaultMaxInterval /\ src # 255
              THEN gap + 1
              ELSE IF maxInterval = DefaultMaxInterval /\ pre = 0 /\ src = 0
              THEN 0 ELSE -1
        /\ prevGap' = gap
        /\ UNCHANGED <<imageVars, tickVars>>

InitCounter == ImageIdle /\ CounterIdle /\ TickIdle

\* Source values of a single pixel followed over long runs.
AltSamples == {0, 128, 255}

AltIntervals == {0, 1, DefaultMaxInterval}

\* update() on a 1x1 source, any number of times.
AltUpdate ==
    \E source \in Images(1, 1, AltSamples), maxInterval \in AltIntervals :
        UpdateCall(source, maxInterval)

NextAlt == AltUpdate

SpecAlt == InitCounter /\ [][NextAlt]_vars

\* Source values where sizes vary: the extremes, their neighbours, the middle.
CounterSamples == {0, 1, 128, 255}

CounterSources ==
    Images(1, 1, CounterSamples) \cup Images(2, 1, CounterSamples)
    \cup Images(1, 2, CounterSamples)

CounterIntervals == {1, 2}

\* update() on sources of varying size, while every count is below MaxCount.
CounterUpdate ==
    /\ \A i \in DOMAIN stateImage.data : stateImage.data[i] < MaxCount
    /\ \E source \in CounterSources, maxInterval \in CounterIntervals :
          UpdateCall(source, maxInterval)

NextCounter == CounterUpdate

SpecCounter == InitCounter /\ [][NextCounter]_vars

\* Intervals at and around the largest value txTimer can hold.
StaleIntervals == {3, 254, 255, 256}

\* update() on a 1x1 source whose pixel goes black once and then never
\* reaches an extreme again, followed for up to MaxElapsed calls.
StaleUpdate ==
    /\ elapsed < MaxElapsed
    /\ \E source \in Images(1, 1, {0, 128}), maxInterval \in StaleIntervals :
          UpdateCall(source, maxInterval)

NextStale == StaleUpdate

SpecStale == InitCounter /\ [][NextStale]_vars

\* Two counters updated side by side with frames of the same size and the same
\* maxInterval: the frames agree on pixel 0 and are free on pixel 1.
PairSamples == {0, 128, 255}

PairUpdate ==
    /\ \A i \in DOMAIN stateImage.data : stateImage.data[i] < MaxCount
    /\ \A i \in DOMAIN twin.data : twin.data[i] < MaxCount
    /\ \E source \in Images(2, 1, PairSamples),
          other \in Images(2, 1, PairSamples),
          maxInterval \in CounterIntervals :
          /\ other.data[0] = source.data[0]
          /\ stateImage' = update(stateImage, source, maxInterval)
          /\ twin' = update(twin, other, maxInterval)
          /\ UNCHANGED <<imageVars, lastCall, altLen, gap, prevGap, prior,
                         elapsed, tickVars>>

NextPair == PairUpdate

SpecPair == InitCounter /\ [][NextPair]_vars

\* Sizes and frames for the operations inherited from GreyscaleImage.
InheritedSizes == {<<1, 1>>, <<2, 1>>, <<1, 2>>, <<1, 3>>}

InheritedSources ==
    Images(1, 1, {0, 255}) \cup Images(2, 1, {0, 255})
    \cup Images(1, 3, {0, 255})

\* A call of one of the counter's operations that keeps no history of pixel 0.
InheritedCall(tc) ==
    /\ stateImage' = tc
    /\ UNCHANGED <<imageVars, counterVars, tickVars>>

\* update() on a counter that the inherited operations may have resized.
InheritedUpdate ==
    /\ \A i \in DOMAIN stateImage.data : stateImage.data[i] < MaxCount
    /\ \E source \in InheritedSources, maxInterval \in CounterIntervals :
          InheritedCall(update(stateImage, source, maxInterval))

\* GreyscaleImage._setSize called on the counter.
InheritedSetSize ==
    \E size \in InheritedSizes :
        InheritedCall(setSize(stateImage, size[1], size[2]))

\* GreyscaleImage.updateFrom called on the counter.
InheritedUpdateFrom ==
    \E source \in InheritedSources :
        InheritedCall(updateFrom(stateImage, source))

NextInherited == InheritedUpdate \/ InheritedSetSize \/ InheritedUpdateFrom

SpecInherited == InitCounter /\ [][NextInherited]_vars

----------------------------------------------------------------------------
(* Claims about TransitionCountingImage.update *)

\* C1: a pixel that starts Idle and whose source value alternates between 0 and
\* 255 on every call of update, each with maxInterval >= 1, has count k after
\* the k-th call, for every k up to 255.
C1_AlternationCounts ==
    altLen \in 1..255 => stateImage.data[0] = altLen

\* C1 witness: the 255th call of an alternation has been made.
C1_Witness ==
    altLen = 255 /\ stateImage.data[0] = 255

\* C2: with maxInterval = 10, a pixel activated on source value 0 is Idle
\* (count 0) after 11 further calls without the expected 255, and a following
\* call with source value 255 makes it Active with count 1, nextExpected 0 and
\* txTimer 0.
C2_GapResets ==
    /\ gap = DefaultMaxInterval + 1 => stateImage.data[0] = 0
    /\ (prevGap = DefaultMaxInterval + 1 /\ LastSrc = 255) =>
          /\ stateImage.data[0] = 1
          /\ stateImage.nextExpected[0] = 0
          /\ stateImage.txTimer[0] = 0

\* C2 witness: the late 255 has arrived after the gap of 11 calls.
C2_Witness ==
    /\ prevGap = DefaultMaxInterval + 1
    /\ LastSrc = 255
    /\ stateImage.data[0] = 1

\* C4: every pixel with count > 0 has nextExpected 0 or 255, after any
\* sequence of update calls, changes of size included.
C4_NextExpectedIsExtreme ==
    \A i \in DOMAIN stateImage.data :
        stateImage.data[i] > 0 => stateImage.nextExpected[i] \in {0, 255}

\* C4 witness: after a change of size to two pixels, pixel 1 has counted two
\* transitions and expects 255, while pixel 0 timed out and is Idle.
C4_Witness ==
    /\ stateImage.width * stateImage.height = 2
    /\ stateImage.data[1] = 3
    /\ stateImage.nextExpected[1] = 255
    /\ stateImage.data[0] = 0
    /\ stateImage.txTimer[0] > 0

----------------------------------------------------------------------------
(* The setInterval tick of onload *)

\* Number of ticks followed.
MaxTicks == 3

\* The count channel of a TransitionCountingImage, as updateFrom reads it.
AsImage(tc) == [width |-> tc.width, height |-> tc.height, data |-> tc.data]

\* Pipeline with a toBinary(128) between increaseContrast and update.
PipelineBinarized(camera, previous, bufs, p) ==
    LET diff == subtract(updateFrom(bufs.diffImage, camera), previous)
        contrast == toBinary(increaseContrast(
                        updateFrom(bufs.highContrastDiffImage, diff),
                        p.contrastFactor), 128)
        state == update(bufs.stateImage, contrast, p.maxInterval)
        counted == toBinary(updateFrom(bufs.waveMap, AsImage(state)),
                            p.transitionCount)
        copied == updateFrom(bufs.filteredWaveMap, counted)
        filtered == discardOutliers(counted, p.outlierThreshold)
    IN  [cameraImage |-> camera, prevCameraImage |-> previous,
         diffImage |-> diff, highContrastDiffImage |-> contrast,
         updateSource |-> contrast, stateImage |-> state,
         waveMap |-> filtered, filteredWaveMap |-> copied,
         isWaving |-> IF pixelSum(filtered) > 0 THEN "YES!" ELSE "Nope"]

\* Pipeline that takes the difference in the camera image itself, as if
\* diffImage were the same object as cameraImage.
PipelineInPlace(camera, previous, bufs, p) ==
    LET diff == subtract(camera, previous)
        contrast == increaseContrast(
                        updateFrom(bufs.highContrastDiffImage, diff),
                        p.contrastFactor)
        state == update(bufs.stateImage, contrast, p.maxInterval)
        counted == toBinary(updateFrom(bufs.waveMap, AsImage(state)),
                            p.transitionCount)
        copied == updateFrom(bufs.filteredWaveMap, counted)
        filtered == discardOutliers(counted, p.outlierThreshold)
    IN  [cameraImage |-> diff, prevCameraImage |-> previous,
         diffImage |-> diff, highContrastDiffImage |-> contrast,
         updateSource |-> contrast, stateImage |-> state,
         waveMap |-> filtered, filteredWaveMap |-> copied,
         isWaving |-> IF pixelSum(filtered) > 0 THEN "YES!" ELSE "Nope"]

\* Pipeline that decides on the thresholded wave map before the filter.
PipelineUnfiltered(camera, previous, bufs, p) ==
    LET diff == subtract(updateFrom(bufs.diffImage, camera), previous)
        contrast == increaseContrast(
                        updateFrom(bufs.highContrastDiffImage, diff),
                        p.contrastFactor)
        state == update(bufs.stateImage, contrast, p.maxInterval)
        counted == toBinary(updateFrom(bufs.waveMap, AsImage(state)),
                            p.transitionCount)
        copied == updateFrom(bufs.filteredWaveMap, counted)
        filtered == discardOutliers(counted, p.outlierThreshold)
    IN  [cameraImage |-> camera, prevCameraImage |-> previous,
         diffImage |-> diff, highContrastDiffImage |-> contrast,
         updateSource |-> contrast, stateImage |-> state,
         waveMap |-> filtered, filteredWaveMap |-> copied,
         isWaving |-> IF pixelSum(counted) > 0 THEN "YES!" ELSE "Nope"]

\* The body of the tick that runs when cameraImage and prevCameraImage are
\* both defined. camera and previous are the images those two variables hold,
\* bufs the other images of the closure, p the four inputs read from the
\* page; the result holds every image after the tick (the two camera images
\* are only passed as arguments of updateFrom and subtract, which read them),
\* the frame passed to update, and the text written to #is-waving.
Pipeline(camera, previous, bufs, p) ==
    LET diff == subtract(updateFrom(bufs.diffImage, camera), previous)
        contrast == increaseContrast(
                        updateFrom(bufs.highContrastDiffImage, diff),
                        p.contrastFactor)
        state == update(bufs.stateImage, contrast, p.maxInterval)
        counted == toBinary(updateFrom(bufs.waveMap, AsImage(state)),
                            p.transitionCount)
        copied == updateFrom(bufs.filteredWaveMap, counted)
        filtered == discardOutliers(counted, p.outlierThreshold)
    IN  [cameraImage |-> camera, prevCameraImage |-> previous,
         diffImage |-> diff, highContrastDiffImage |-> contrast,
         updateSource |-> contrast, stateImage |-> state,
         waveMap |-> filtered, filteredWaveMap |-> copied,
         isWaving |-> IF pixelSum(filtered) > 0 THEN "YES!" ELSE "Nope"]

\* CameraInput.getGreyscaleImage: a new GreyscaleImage read from the canvas.
getGreyscaleImage(context) == read(NewImage, context)

\* Size of the canvas of the CameraInput the page creates.
CanvasWidth == 40
CanvasHeight == 30

Black == <<0, 0, 0, 255>>
White == <<255, 255, 255, 255>>
Grey == <<100, 100, 101, 255>>

\* Canvas contents: black or grey everywhere, or black with a white first
\* pixel.
Canvases(width, height) ==
    { [width |-> width, height |-> height,
       pixels |-> [i \in 0..(width * height - 1) |-> c]] :
        c \in {Black, Grey} }
    \cup
    { [width |-> width, height |-> height,
       pixels |-> [i \in 0..(width * height - 1) |->
                      IF i = 0 THEN White ELSE Black]] }

\* outlierThreshold values of the page's input: 0 and 0.5
TickOutlierThresholds == {<<0, 1>>, <<1, 2>>}

\* Values of the four inputs of the page: contrast 4, the default interval,
\* two transitions and half a neighbour; or no contrast, interval 1, no
\* transition and no neighbour needed.
TickInputs ==
    { [contrastFactor |-> <<4, 1>>, maxInterval |-> DefaultMaxInterval,
       transitionCount |-> 2, outlierThreshold |-> <<1, 2>>],
      [contrastFactor |-> <<0, 1>>, maxInterval |-> 1,
       transitionCount |-> 0, outlierThreshold |-> <<0, 1>>] }

InitTick ==
    /\ ImageIdle /\ CounterIdle
    /\ cameraInput = [width |-> CanvasWidth, height |-> CanvasHeight]
    /\ inputs \in TickInputs
    /\ cameraImage = <<>>
    /\ prevCameraImage = <<>>
    /\ diffImage = NewImage
    /\ highContrastDiffImage = NewImage
    /\ waveMap = NewImage
    /\ filteredWaveMap = NewImage
    /\ isWaving = ""
    /\ still = TRUE
    /\ ticks = 0
    /\ canvas = <<>>

\* One tick: the canvas holds context, the page holds the inputs p.
TickWith(context, p) ==
    LET camera == getGreyscaleImage(context)
        bufs == [diffImage |-> diffImage,
                 highContrastDiffImage |-> highContrastDiffImage,
                 stateImage |-> stateImage, waveMap |-> waveMap,
                 filteredWaveMap |-> filteredWaveMap]
    IN  /\ canvas' = <<context>>
        /\ ticks' = ticks + 1
        /\ IF cameraImage # <<>>
           THEN \E out \in {Pipeline(camera, cameraImage[1], bufs, p)} :
                /\ prevCameraImage' = <<out.prevCameraImage>>
                /\ cameraImage' = <<out.cameraImage>>
                /\ diffImage' = out.diffImage
                /\ highContrastDiffImage' = out.highContrastDiffImage
                /\ stateImage' = out.stateImage
                /\ lastCall' = <<[source |-> out.updateSource,
                                  maxInterval |-> p.maxInterval]>>
                /\ waveMap' = out.waveMap
                /\ filteredWaveMap' = out.filteredWaveMap
                /\ isWaving' = out.isWaving
                /\ still' = (/\ still
                             /\ camera.data = cameraImage[1].data
                             /\ p.transitionCount >= 2
                             /\ p.outlierThreshold[1] > 0)
           ELSE /\ prevCameraImage' = cameraImage
                /\ cameraImage' = <<camera>>
                /\ UNCHANGED <<diffImage, highContrastDiffImage, stateImage,
                               lastCall, waveMap, filteredWaveMap, isWaving,
                               still>>
        /\ UNCHANGED <<imageVars, altLen, gap, prevGap, prior, elapsed, twin,
                       cameraInput, inputs>>

\* The tick of setInterval: it reads the four inputs of the page and the
\* frame the camera has put on the canvas.
Tick ==
    /\ ticks < MaxTicks
    /\ \E context \in Canvases(cameraInput.width, cameraInput.height) :
          TickWith(context, inputs)

\* The user changes the four inputs of the page between two ticks.
SetInputs ==
    /\ \E p \in TickInputs \ {inputs} : inputs' = p
    /\ UNCHANGED <<imageVars, stateImage, counterVars, cameraImage,
                   prevCameraImage, diffImage, highContrastDiffImage, waveMap,
                   filteredWaveMap, isWaving, cameraInput, still, ticks,
                   canvas>>

NextTick == Tick \/ SetInputs

SpecTick == InitTick /\ [][NextTick]_vars

\* The pipeline ran in the last tick.
Ran == prevCameraImage # <<>>

\* The frame passed to stateImage.update in the last tick.
UpdateSource == lastCall[1].source

----------------------------------------------------------------------------
(* Claims about the tick *)

C8_IdenticalFramesNotWaving ==
    Ran =>
        /\ cameraImage[1].data = prevCameraImage[1].data =>
              \A i \in DOMAIN cameraImage[1].data :
                  diffImage.data[i] = 128 /\ highContrastDiffImage.data[i] = 128
        /\ still => isWaving = "Nope"

\* C8 witness: the third tick of a stream of identical grey frames has
\* reported not waving, all counts still 0.
C8_Witness ==
    /\ ticks = 3
    /\ Ran
    /\ still
    /\ cameraImage[1].data = prevCameraImage[1].data
    /\ \A i \in DOMAIN cameraImage[1].data :
          /\ cameraImage[1].data[i] = 100
          /\ highContrastDiffImage.data[i] = 128
          /\ stateImage.data[i] = 0
    /\ isWaving = "Nope"

\* C11: after any sequence of update, _setSize and updateFrom calls on a
\* TransitionCountingImage, its data, nextExpected and txTimer all have
\* width * height entries.
C11_ArraysInStep ==
    /\ DOMAIN stateImage.data = 0..(stateImage.width * stateImage.height - 1)
    /\ DOMAIN stateImage.nextExpected = DOMAIN stateImage.data
    /\ DOMAIN stateImage.txTimer = DOMAIN stateImage.data

\* C12: a tick that runs the pipeline leaves its inputs as they were: after it
\* the previous camera frame is the frame that was current before it, the
\* current camera frame is the greyscale image read from the canvas, and the
\* frame passed to update is the contrast-boosted frame the tick leaves behind.
C12_TickKeepsInputs ==
    [][(ticks' = ticks + 1 /\ cameraImage # <<>>) =>
          /\ prevCameraImage' = cameraImage
          /\ cameraImage' = <<getGreyscaleImage(canvas'[1])>>
          /\ lastCall'[1].source = highContrastDiffImage']_vars

\* C12 witness: the third tick ran the pipeline on two different frames, wrote
\* a difference frame other than the camera frame and counted a transition.
C12_Witness ==
    /\ Ran /\ ticks = 3
    /\ cameraImage[1].data # prevCameraImage[1].data
    /\ diffImage.data # cameraImage[1].data
    /\ \E i \in DOMAIN stateImage.data : stateImage.data[i] > 0

\* C14: on every tick that runs the pipeline, the wave map the tick sums is
\* the outlier-filtered one (discardOutliers applied to the thresholded map,
\* of which filteredWaveMap keeps the copy taken before the filter), and the
\* tick reports waving exactly when that filtered map has a non-zero pixel.
C14_DecisionOnFiltered ==
    Ran =>
        /\ \E t \in TickOutlierThresholds :
              waveMap = discardOutliers(filteredWaveMap, t)
        /\ isWaving \in {"YES!", "Nope"}
        /\ (isWaving = "YES!") <=> (pixelSum(waveMap) > 0)
        /\ (isWaving = "YES!") <=>
              (\E i \in DOMAIN waveMap.data : waveMap.data[i] # 0)

\* C14 witness: the thresholded map had pixels set, the filter removed all of
\* them, and the tick reported not waving.
C14_Witness ==
    /\ Ran
    /\ pixelSum(filteredWaveMap) > 0
    /\ pixelSum(waveMap) = 0
    /\ isWaving = "Nope"

\* C15: for every maxInterval >= 1, 255 and more included, a pixel that an
\* update finds Active after more than maxInterval updates have gone by since
\* its last accepted transition has count 0 after that update.
C15_StaleResets ==
    (/\ lastCall # <<>> /\ lastCall[1].maxInterval >= 1
     /\ prior.count > 0 /\ elapsed > lastCall[1].maxInterval)
        => stateImage.data[0] = 0

\* Pixel 0 after the last update() call.
Now ==
    [count |-> stateImage.data[0], nextExpected |-> stateImage.nextExpected[0],
     txTimer |-> stateImage.txTimer[0]]

\* The value txTimer[0] took when the last update() call incremented it.
IncrementedTimer == IF prior.txTimer < 255 THEN prior.txTimer + 1 ELSE 255

\* C16: when the expected extreme arrives at an Active pixel in the update
\* that increments txTimer to exactly maxInterval, it is accepted (count goes
\* up by one, nextExpected flips to 255 - nextExpected, txTimer is 0); when it
\* arrives in the update that increments txTimer to maxInterval + 1, it is not
\* counted and count is 0 after that update.
C16_TimeoutBoundary ==
    (lastCall # <<>> /\ prior.count > 0 /\ LastSrc = prior.nextExpected) =>
        /\ IncrementedTimer = lastCall[1].maxInterval =>
              /\ Now.count = (IF prior.count < 255 THEN prior.count + 1 ELSE 255)
              /\ Now.nextExpected = 255 - prior.nextExpected
              /\ Now.txTimer = 0
        /\ IncrementedTimer = lastCall[1].maxInterval + 1 =>
              Now.count = 0

\* C16 witness: with maxInterval 10 the expected extreme arrived in the tenth
\* update after the last transition and was counted.
C16_Witness ==
    /\ lastCall # <<>> /\ lastCall[1].maxInterval = DefaultMaxInterval
    /\ prior.count > 0 /\ LastSrc = prior.nextExpected
    /\ IncrementedTimer = DefaultMaxInterval
    /\ Now.count = prior.count + 1 /\ Now.txTimer = 0

\* C17: a pixel with count 255 whose next transition is accepted keeps count
\* 255, while nextExpected flips and txTimer goes back to 0.
C17_CountSaturates ==
    (/\ lastCall # <<>> /\ prior.count = 255
     /\ LastSrc = prior.nextExpected
     /\ IncrementedTimer <= lastCall[1].maxInterval) =>
        /\ Now.count = 255
        /\ Now.nextExpected = 255 - prior.nextExpected
        /\ Now.txTimer = 0

\* C17 witness: a pixel at count 255 received its expected extreme in time
\* and is still at 255, now expecting the other extreme.
C17_Witness ==
    /\ lastCall # <<>> /\ prior.count = 255
    /\ LastSrc = prior.nextExpected
    /\ IncrementedTimer <= lastCall[1].maxInterval
    /\ Now.count = 255 /\ Now.nextExpected # prior.nextExpected

\* C19: a source value strictly between 0 and 255 leaves an Idle pixel as it
\* was, and changes an Active pixel only by incrementing txTimer, and by
\* setting count to 0 when the incremented txTimer exceeds maxInterval.
C19_NonBinaryNoProgress ==
    (lastCall # <<>> /\ LastSrc \in 1..254) =>
        IF prior.count = 0
        THEN Now = prior
        ELSE /\ Now.nextExpected = prior.nextExpected
             /\ Now.txTimer = IncrementedTimer
             /\ Now.count = (IF IncrementedTimer > lastCall[1].maxInterval
                             THEN 0 ELSE prior.count)

\* C19 witness: an Active pixel received 128 and kept its count, one update
\* staler; the pixel next to it was Idle.
C19_Witness ==
    /\ lastCall # <<>> /\ LastSrc = 128
    /\ prior.count = 2 /\ Now.count = 2
    /\ Now.txTimer = prior.txTimer + 1
    /\ 1 \in DOMAIN stateImage.data /\ stateImage.data[1] = 0

\* C18: in two runs of update with frames of the same size and the same
\* maxInterval values, in which pixel 0 starts in the same state and receives
\* the same source values, pixel 0 has the same count, nextExpected and
\* txTimer after every update, whatever the other pixel holds and receives.
C18_PixelIndependent ==
    /\ DOMAIN twin.data = DOMAIN stateImage.data
    /\ 0 \in DOMAIN stateImage.data =>
          /\ twin.data[0] = stateImage.data[0]
          /\ twin.nextExpected[0] = stateImage.nextExpected[0]
          /\ twin.txTimer[0] = stateImage.txTimer[0]

\* C18 witness: pixel 0 has counted two transitions in both runs while pixel 1
\* is Idle in one run and Active, one update stale, in the other.
C18_Witness ==
    /\ 1 \in DOMAIN stateImage.data
    /\ stateImage.data[0] = 2 /\ twin.data[0] = 2
    /\ stateImage.data[1] = 0
    /\ twin.data[1] > 0 /\ twin.txTimer[1] = 1

\* C21: after every update(source, maxInterval), every pixel with count > 0
\* has txTimer <= the maxInterval of that call, and a pixel whose count that
\* call set to 1 or incremented has txTimer 0, also when maxInterval differs
\* from call to call.
C21_ActiveTimerInInterval ==
    lastCall # <<>> =>
        /\ \A i \in DOMAIN stateImage.data :
              stateImage.data[i] > 0 =>
                  stateImage.txTimer[i] <= lastCall[1].maxInterval
        /\ (Now.count = prior.count + 1) => Now.txTimer = 0

\* C21 witness: a call with maxInterval 10 left a pixel Active with txTimer
\* 10, a value above the other intervals passed in the same run.
C21_Witness ==
    /\ lastCall # <<>> /\ lastCall[1].maxInterval = DefaultMaxInterval
    /\ prior.count > 0 /\ prior.txTimer = DefaultMaxInterval - 1
    /\ Now.count = prior.count /\ Now.txTimer = DefaultMaxInterval

----------------------------------------------------------------------------
(* Claims about the image operations *)

\* Indices of the pixels that are in neither the first or last row nor the
\* first or last column.
InteriorPixels(image) ==
    { i \in DOMAIN image.data :
        /\ i \div image.width \in 1..(image.height - 2)
        /\ i % image.width \in 1..(image.width - 2) }

\* The only non-zero sample of image is a 255 at p.
OnlyWhiteAt(image, p) ==
    \A i \in DOMAIN image.data : image.data[i] = IF i = p THEN 255 ELSE 0

\* Sum of the 3x3 neighbourhood of interior pixel p in image, read from image only.
SnapshotSum(image, p) ==
    LET idx == NeighbourIndices(p, image.width)
    IN  image.data[idx[1]] + image.data[idx[2]] + image.data[idx[3]]
        + image.data[idx[4]] + image.data[idx[5]] + image.data[idx[6]]
        + image.data[idx[7]] + image.data[idx[8]] + image.data[idx[9]]

\* C5 (as claimed): toBinary(whiteThreshold) maps every sample v to 255 if
\* v >= whiteThreshold and to 0 otherwise, for every threshold in 0..255.
C5_BinarizeIsThreshold ==
    Len(hist) >= 1 =>
        \A i \in DOMAIN img.data :
            img.data[i] = IF Pre.data[i] >= arg THEN 255 ELSE 0

\* C10 (as claimed): after toBinary(128) every sample is 0 or 255, and a second
\* toBinary(128) leaves every sample as the first left it.
C10_BinarizeIdempotent ==
    (arg = 128 /\ Len(hist) >= 1) =>
        /\ \A i \in DOMAIN img.data : img.data[i] \in {0, 255}
        /\ Len(hist) >= 2 => img.data = Pre.data

\* C9 (as claimed): subtract(result, zeroFrame) after result = subtract(A, B)
\* leaves every sample of result unchanged.
C9_SubtractZeroUnchanged ==
    Len(hist) >= 2 => img.data = Pre.data

\* C9 (amended): subtract(result, zeroFrame) sets every sample r of result to
\* min(r + 128, 255), so a sample is unchanged only if it was 255.
C9_SubtractZeroShifts ==
    Len(hist) >= 2 =>
        \A i \in DOMAIN img.data :
            /\ img.data[i] = IF Pre.data[i] + 128 > 255 THEN 255
                             ELSE Pre.data[i] + 128
            /\ (img.data[i] = Pre.data[i]) <=> (Pre.data[i] = 255)

\* C9 witness: A = B gave a result sample of 128, which the zero frame moved to 255.
C9_Witness ==
    /\ Len(hist) = 2
    /\ hist[1].data[0] = arg.data[0]
    /\ Pre.data[0] = 128
    /\ img.data[0] = 255

\* C6: a single 255 at an interior position of an otherwise zero frame is set
\* to 0 by discardOutliers(0.5). The code keeps it: the sum of part_000:61-65
\* includes the pixel itself, so it is 255 >= 0.5 * 255.
C6_IsolatedPixelSuppressed ==
    (Len(hist) >= 1 /\ arg = <<1, 2>>) =>
        \A p \in InteriorPixels(Pre) :
            OnlyWhiteAt(Pre, p) => img.data[p] = 0

\* C7 (as claimed): discardOutliers decides every interior pixel from the frame
\* as it was before the call: 255 iff the sum of its 3x3 neighbourhood in the
\* pre-call frame is >= outlierThreshold * 255, and 0 otherwise.
C7_FilterReadsSnapshot ==
    Len(hist) >= 1 =>
        \A p \in InteriorPixels(Pre) :
            img.data[p] = IF SnapshotSum(Pre, p) * arg[2] >= arg[1] * 255
                          THEN 255 ELSE 0

\* R + G + B of pixel i of the canvas that was read.
ColourSum(i) == arg.pixels[i][1] + arg.pixels[i][2] + arg.pixels[i][3]

\* C13: read sets each sample to floor((R + G + B) / 3), whatever the alpha.
C13_ReadIsFloor ==
    Len(hist) >= 1 =>
        \A i \in DOMAIN img.data : img.data[i] = ColourSum(i) \div 3

\* C13 (amended): read gives the image the size of the canvas and sets each
\* sample to (R + G + B) / 3 rounded to the nearest integer, whatever the
\* alpha: the sample v has 3v within 1 of R + G + B.
C13_ReadIsNearest ==
    Len(hist) >= 1 =>
        /\ img.width = arg.width /\ img.height = arg.height
        /\ DOMAIN img.data = DOMAIN arg.pixels
        /\ \A i \in DOMAIN img.data :
              /\ img.data[i] \in Byte
              /\ 3 * img.data[i] - ColourSum(i) \in -1..1

\* C13 witness: a transparent pixel with R + G + B = 2 was read as 1.
C13_Witness ==
    /\ Len(hist) >= 1
    /\ \E i \in DOMAIN img.data :
          /\ ColourSum(i) = 2 /\ arg.pixels[i][4] = 0
          /\ img.data[i] = 1

\* Pixels p and q of a frame of width w are the same or touch, by row and
\* column: q is in the 3x3 neighbourhood of p.
Adjacent(p, q, w) ==
    /\ (p \div w) - (q \div w) \in -1..1
    /\ (p % w) - (q % w) \in -1..1

\* image with sample q changed from 0 to 255 or back.
Flipped(image, q) == [image EXCEPT !.data[q] = 255 - @]

\* C20: discardOutliers does not wrap at the frame borders: the result for a
\* pixel does not change when a sample outside its 3x3 neighbourhood by row
\* and column changes, such as, for a pixel in column 0, a sample in the last
\* column of the row above.
C20_NoWrap ==
    Len(hist) >= 1 =>
        \A p \in DOMAIN Pre.data, q \in DOMAIN Pre.data :
            ~Adjacent(p, q, Pre.width) =>
                discardOutliers(Flipped(Pre, q), arg).data[p] = img.data[p]

\* Indices of the pixels in the first and in the last row of image.
BorderRows(image) ==
    { i \in DOMAIN image.data :
        i \div image.width \in {0, image.height - 1} }

\* The text the tick writes to #is-waving for a filtered wave map.
Decision(image) == IF pixelSum(image) > 0 THEN "YES!" ELSE "Nope"

\* C22: after discardOutliers every pixel in the first row and in the last row
\* is 0, for every frame and every outlierThreshold, 0 included, so that a
\* frame of height 1 or 2 is all 0 and the tick's test on its sum answers
\* not waving.
C22_BorderRowsZero ==
    Len(hist) >= 1 =>
        /\ \A i \in BorderRows(img) : img.data[i] = 0
        /\ img.height <= 2 =>
              /\ \A i \in DOMAIN img.data : img.data[i] = 0
              /\ Decision(img) = "Nope"

\* C22 witness: discardOutliers(0) on an all-white 3x3 frame left the first
\* and last row 0 and the centre 255.
C22_Witness ==
    /\ Len(hist) = 1
    /\ arg = <<0, 1>>
    /\ Pre.width = 3 /\ Pre.height = 3
    /\ \A i \in DOMAIN Pre.data : Pre.data[i] = 255
    /\ \A i \in BorderRows(img) : img.data[i] = 0
    /\ img.data[4] = 255

====
